---- MODULE Spec2Model ----
(***************************************************************************)
(* The `init` command of connect-cli (lib/commands/init.js): a pipeline of *)
(* seven steps run by async.series over a file system and the process's    *)
(* working directory.                                                      *)
(*                                                                         *)
(* A path is the sequence of its components from the root, so <<>> is "/"  *)
(* and <<"w", "proj">> is "/w/proj".  The file system is a function from   *)
(* the existing paths to what they hold.  The random session secrets of    *)
(* the two configuration documents are left out of the documents: what    *)
(* is kept of a document is its kind, its name and its port.               *)
(***************************************************************************)
EXTENDS Integers, Sequences, FiniteSets, TLC

VARIABLES fs, cwd, run, ctx, pc, idx, fidx, started, finished, log,
          result, exitCode, stdout, answer, fs0, prev

vars == <<fs, cwd, run, ctx, pc, idx, fidx, started, finished, log,
          result, exitCode, stdout, answer, fs0, prev>>

(* Invocations of the command in one behaviour. *)
MaxRuns == 2
(* Artifacts already present before the first invocation. *)
MaxPre == 1

-----------------------------------------------------------------------------
(* Paths *)

Root == <<>>
W == <<"w">>
Proj == <<"w", "proj">>

(* A command-line directory argument: its components, and whether it was   *)
(* written with a leading "/".                                             *)
Dot == [abs |-> FALSE, segs |-> <<>>]
RelProj == [abs |-> FALSE, segs |-> <<"proj">>]
AbsProj == [abs |-> TRUE, segs |-> <<"proj">>]

(* path.join(base, d): the components of d appended to base; a leading "/" *)
(* of d does not restart the path.                                         *)
PathJoin(base, d) == base \o d.segs

(* path.basename(d) *)
Basename(d) == IF d.segs = <<>> THEN "." ELSE d.segs[Len(d.segs)]

Parent(p) == SubSeq(p, 1, Len(p) - 1)
Prefixes(p) == {SubSeq(p, 1, k) : k \in 0..Len(p)}
IsUnder(p, d) == Len(p) >= Len(d) /\ SubSeq(p, 1, Len(d)) = d

-----------------------------------------------------------------------------
(* File contents *)

Entry(kind, name, port, key) ==
    [kind |-> kind, name |-> name, port |-> port, key |-> key]
DirEntry == Entry("dir", "", 0, 0)
OldEntry == Entry("old", "", 0, 0)
PartialEntry(name) == Entry("partial", name, 0, 0)

(* The manifest of npm() *)
Manifest(d) == Entry("manifest", Basename(d), 0, 0)
DevPort == 3000
ProdPort == 80
DevConfig == Entry("config", "development", DevPort, 0)
ProdConfig == Entry("config", "production", ProdPort, 0)

(* The bundled templates and the destination each is copied to. *)
Templates ==
    << [from |-> "server.js", to |-> "server.js"],
       [from |-> "views",     to |-> "views"],
       [from |-> "public",    to |-> "public"],
       [from |-> "gitignore", to |-> ".gitignore"] >>
TemplateEntry(i) == Entry("template", Templates[i].from, 0, 0)

(* openssl genrsa writes a new private key; openssl rsa -pubout writes the *)
(* public key of the private key it is given.                              *)
PrivateKey(k) == Entry("private", "", 0, k)
PublicOf(e) == Entry("public", "", 0, e.key)

-----------------------------------------------------------------------------
(* File-system operations *)

Exists(f, p) == p \in DOMAIN f

(* fs.readdirSync(d).length > 0 *)
NonEmpty(f, d) == \E p \in DOMAIN f : Len(p) > Len(d) /\ IsUnder(p, d)

(* mkdirp(p): p and every missing ancestor become directories. *)
Mkdirs(f, p) ==
    [q \in DOMAIN f \cup Prefixes(p) |-> IF q \in DOMAIN f THEN f[q] ELSE DirEntry]

(* fs.outputFile / fs.outputJSON / fs.copy: parents are created, the file  *)
(* is written.                                                             *)
Output(f, p, e) ==
    [q \in DOMAIN f \cup Prefixes(p) |->
        IF q = p THEN e ELSE IF q \in DOMAIN f THEN f[q] ELSE DirEntry]

-----------------------------------------------------------------------------
(* The command line and the initial file system *)

(* The ways the command is invoked: from /w naming proj, from /w naming    *)
(* /proj, and from inside /w/proj with the default ".".                    *)
Invocations ==
    { [cwd |-> W,    dir |-> RelProj],
      [cwd |-> W,    dir |-> AbsProj],
      [cwd |-> Proj, dir |-> Dot] }

(* What may be present under /w/proj before the first invocation. *)
OldFiles ==
    { Proj \o <<"package.json">>,
      Proj \o <<"config", "development.json">>,
      Proj \o <<"config", "production.json">>,
      Proj \o <<"server.js">>,
      Proj \o <<"views">>,
      Proj \o <<"public">>,
      Proj \o <<".gitignore">>,
      Proj \o <<"config", "keys", "private.pem">>,
      Proj \o <<"config", "keys", "public.pem">>,
      Proj \o <<"notes.txt">> }
OldDirs ==
    { Proj,
      Proj \o <<"config", "keys">>,
      Proj \o <<".git">>,
      Proj \o <<"proj">> }

InitialFs(S) ==
    [q \in {Root, W} \cup UNION {Prefixes(p) : p \in S} |->
        IF q \in S \cap OldFiles THEN OldEntry ELSE DirEntry]

NoCtx ==
    [cwd0 |-> Root, dir |-> Dot, npmFile |-> Root, npmObj |-> DirEntry,
     devFile |-> Root, prodFile |-> Root, keysDir |-> Root,
     pvt |-> Root, pub |-> Root]

Init ==
    /\ \E S \in SUBSET (OldFiles \cup OldDirs) :
          /\ Cardinality(S) <= MaxPre
          /\ fs = InitialFs(S)
    /\ cwd = W
    /\ run = 0
    /\ ctx = NoCtx
    /\ pc = "NotStarted"
    /\ idx = 1
    /\ fidx = 1
    /\ started = <<>>
    /\ finished = <<>>
    /\ log = <<>>
    /\ result = "none"
    /\ exitCode = -1
    /\ stdout = 0
    /\ answer = "none"
    /\ fs0 = fs
    /\ prev = [ran |-> FALSE, ok |-> FALSE, failed |-> FALSE,
              fresh |-> FALSE, target |-> Root]

-----------------------------------------------------------------------------
(* The orchestrator *)

Steps ==
    <<"directory", "git", "npm", "development", "production", "files", "keys">>

Msg(what, about) == <<what, about>>
Br == Msg("br", "")

(* A task list that passes over every other task. *)
NextIndexSkipping(i) == IF i + 2 <= Len(Steps) THEN i + 2 ELSE i + 1

(* The task async.series runs after task i. *)
NextIndex(i) == i + 1

(* The final callback of async.series in registerInit: it prints the       *)
(* banner whatever err is, and the process then ends by itself.            *)
FinalBanner(err) == <<Br, Msg("header", "DONE")>>

(* The exit status of a process that ends without an explicit status. *)
DefaultExitCode == 0

(* A series that goes on to the next task whatever err is. *)
SeriesCallbackIgnoringErr(step, err, msgs) ==
    /\ finished' = Append(finished, [step |-> step, err |-> err])
    /\ IF idx = Len(Steps)
         THEN /\ pc' = "Done"
              /\ idx' = idx
              /\ result' = err
              /\ exitCode' = DefaultExitCode
              /\ log' = log \o msgs \o FinalBanner(err)
         ELSE /\ pc' = Steps[NextIndex(idx)]
              /\ idx' = NextIndex(idx)
              /\ result' = IF result = "none" THEN err ELSE result
              /\ exitCode' = exitCode
              /\ log' = log \o msgs

(* A step calls done(err), having logged msgs: async.series calls the      *)
(* final callback on an error or after the last task, and otherwise makes  *)
(* the next task the current one.                                          *)
SeriesCallback(step, err, msgs) ==
    /\ finished' = Append(finished, [step |-> step, err |-> err])
    /\ IF err # "none" \/ idx = Len(Steps)
         THEN /\ pc' = "Done"
              /\ idx' = idx
              /\ result' = err
              /\ exitCode' = DefaultExitCode
              /\ log' = log \o msgs \o FinalBanner(err)
         ELSE /\ pc' = Steps[NextIndex(idx)]
              /\ idx' = NextIndex(idx)
              /\ result' = result
              /\ exitCode' = exitCode
              /\ log' = log \o msgs

(* The handler of cli.command('init') up to the call of async.series: the  *)
(* step list is built, and with it the paths of npm(), development(),      *)
(* production() and keys(), from the working directory of that moment.     *)
Invoke(inv) ==
    /\ pc \in {"NotStarted", "Done", "Aborted"}
    /\ run < MaxRuns
    /\ Exists(fs, inv.cwd)
    /\ run' = run + 1
    /\ cwd' = inv.cwd
    /\ ctx' = [cwd0    |-> inv.cwd,
               dir     |-> inv.dir,
               npmFile |-> PathJoin(inv.cwd, inv.dir) \o <<"package.json">>,
               npmObj  |-> Manifest(inv.dir),
               devFile |-> PathJoin(inv.cwd, inv.dir) \o <<"config", "development.json">>,
               prodFile |-> PathJoin(inv.cwd, inv.dir) \o <<"config", "production.json">>,
               keysDir |-> PathJoin(inv.cwd, inv.dir) \o <<"config", "keys">>,
               pvt     |-> PathJoin(inv.cwd, inv.dir) \o <<"config", "keys", "private.pem">>,
               pub     |-> PathJoin(inv.cwd, inv.dir) \o <<"config", "keys", "public.pem">>]
    /\ pc' = Steps[1]
    /\ idx' = 1
    /\ fidx' = 1
    /\ started' = <<>>
    /\ finished' = <<>>
    /\ log' = <<Br, Msg("header", "Initializing"), Br>>
    /\ result' = "none"
    /\ exitCode' = -1
    /\ stdout' = 0
    /\ answer' = "none"
    /\ fs0' = fs
    /\ prev' = [ran |-> run > 0,
                ok |-> pc = "Done" /\ result = "none",
                failed |-> pc = "Done" /\ result # "none",
                fresh |-> ~Exists(fs0, PathJoin(ctx.cwd0, ctx.dir)),
                target |-> PathJoin(ctx.cwd0, ctx.dir)]
    /\ UNCHANGED fs

-----------------------------------------------------------------------------
(* directory(context) *)

Directory ==
    /\ pc = "directory"
    /\ started' = Append(started, "directory")
    /\ LET dir == PathJoin(cwd, ctx.dir) IN
         IF Exists(fs, dir)
           THEN IF NonEmpty(fs, dir)
                  THEN /\ pc' = "prompt"
                       /\ UNCHANGED <<idx, finished, log, result, exitCode>>
                  ELSE SeriesCallback("directory", "none", <<>>)
           ELSE /\ pc' = "mkdirp"
                /\ UNCHANGED <<idx, finished, log, result, exitCode>>
    /\ UNCHANGED <<fs, cwd, run, ctx, fidx, stdout, answer, fs0, prev>>

(* A prompt callback that goes on after a "no". *)
DeclineAndProceed ==
    /\ cwd' = cwd
    /\ SeriesCallback("directory", "none", <<Br>>)

(* A decline that has already changed into the target. *)
DeclineInsideTarget ==
    /\ pc' = "Aborted"
    /\ exitCode' = DefaultExitCode
    /\ log' = log \o <<Br, Msg("error", "ABORTED")>>
    /\ cwd' = PathJoin(cwd, ctx.dir)
    /\ UNCHANGED <<idx, finished, result>>

(* What the callback of inquirer.prompt does when the user declines: it    *)
(* logs ABORTED and calls process.exit() with no status.                   *)
Decline ==
    /\ pc' = "Aborted"
    /\ exitCode' = DefaultExitCode
    /\ log' = log \o <<Br, Msg("error", "ABORTED")>>
    /\ UNCHANGED <<cwd, idx, finished, result>>

(* A prompt callback with its test the wrong way round. *)
PromptAnswerInverted(yes) ==
    /\ pc = "prompt"
    /\ answer' = IF yes THEN "yes" ELSE "no"
    /\ IF ~yes
         THEN /\ cwd' = PathJoin(cwd, ctx.dir)
              /\ SeriesCallback("directory", "none", <<Br>>)
         ELSE Decline
    /\ UNCHANGED <<fs, run, ctx, fidx, started, stdout, fs0, prev>>

(* The callback of inquirer.prompt *)
PromptAnswer(yes) ==
    /\ pc = "prompt"
    /\ answer' = IF yes THEN "yes" ELSE "no"
    /\ IF yes
         THEN /\ cwd' = PathJoin(cwd, ctx.dir)
              /\ SeriesCallback("directory", "none", <<Br>>)
         ELSE Decline
    /\ UNCHANGED <<fs, run, ctx, fidx, started, stdout, fs0, prev>>

(* A mkdirp callback that returns on an error without calling done. *)
MkdirpCallbackDroppingErr(ok) ==
    /\ pc = "mkdirp"
    /\ IF ok
         THEN /\ fs' = Mkdirs(fs, PathJoin(cwd, ctx.dir))
              /\ cwd' = PathJoin(cwd, ctx.dir)
              /\ SeriesCallback("directory", "none", <<>>)
         ELSE /\ pc' = "mkdirpReturned"
              /\ UNCHANGED <<fs, cwd, idx, finished, log, result, exitCode>>
    /\ UNCHANGED <<run, ctx, fidx, started, stdout, answer, fs0, prev>>

(* The callback of mkdirp *)
MkdirpCallback(ok) ==
    /\ pc = "mkdirp"
    /\ IF ok
         THEN /\ fs' = Mkdirs(fs, PathJoin(cwd, ctx.dir))
              /\ cwd' = PathJoin(cwd, ctx.dir)
              /\ SeriesCallback("directory", "none", <<>>)
         ELSE /\ UNCHANGED <<fs, cwd>>
              /\ SeriesCallback("directory", "mkdirp", <<>>)
    /\ UNCHANGED <<run, ctx, fidx, started, stdout, answer, fs0, prev>>

-----------------------------------------------------------------------------
(* git(context) *)

(* The path whose existence git() takes for an initialized repository. *)
GitCheckPath == PathJoin(cwd, ctx.dir)

Git ==
    /\ pc = "git"
    /\ started' = Append(started, "git")
    /\ IF Exists(fs, GitCheckPath)
         THEN SeriesCallback("git", "none", <<Msg("already", "git")>>)
         ELSE /\ pc' = "gitInit"
              /\ UNCHANGED <<idx, finished, log, result, exitCode>>
    /\ UNCHANGED <<fs, cwd, run, ctx, fidx, stdout, answer, fs0, prev>>

(* The callback of cp.exec('git init'): git init makes .git in the working *)
(* directory of the process.                                               *)
GitInitCallback(ok) ==
    /\ pc = "gitInit"
    /\ fs' = IF ok /\ ~Exists(fs, cwd \o <<".git">>)
               THEN Mkdirs(fs, cwd \o <<".git">>) ELSE fs
    /\ SeriesCallback("git", IF ok THEN "none" ELSE "git",
                      <<Msg("initialized", "git")>>)
    /\ UNCHANGED <<cwd, run, ctx, fidx, started, stdout, answer, fs0, prev>>

-----------------------------------------------------------------------------
(* safeJSON(file, obj), as used by npm, development and production *)

JSONSteps == {"npm", "development", "production"}
(* File paths taken from the working directory when the step runs. *)
JSONFileFromCwd(s) ==
    CASE s = "npm" -> PathJoin(cwd, ctx.dir) \o <<"package.json">>
      [] s = "development" -> PathJoin(cwd, ctx.dir) \o <<"config", "development.json">>
      [] s = "production" -> PathJoin(cwd, ctx.dir) \o <<"config", "production.json">>

JSONFile(s) ==
    CASE s = "npm" -> ctx.npmFile
      [] s = "development" -> ctx.devFile
      [] s = "production" -> ctx.prodFile
JSONObj(s) ==
    CASE s = "npm" -> ctx.npmObj
      [] s = "development" -> DevConfig
      [] s = "production" -> ProdConfig
JSONLabel(s) ==
    CASE s = "npm" -> "package.json"
      [] s = "development" -> "development.json"
      [] s = "production" -> "production.json"
WritingPc(s) ==
    CASE s = "npm" -> "npmWrite"
      [] s = "development" -> "developmentWrite"
      [] s = "production" -> "productionWrite"

(* A safeJSON without the existence check. *)
JSONNeverSkips(file) == FALSE

(* Whether safeJSON leaves the file alone. *)
JSONSkips(file) == Exists(fs, file)

SafeJSON(s) ==
    /\ pc = s
    /\ started' = Append(started, s)
    /\ IF JSONSkips(JSONFile(s))
         THEN SeriesCallback(s, "none", <<Msg("already", JSONLabel(s))>>)
         ELSE /\ pc' = WritingPc(s)
              /\ UNCHANGED <<idx, finished, log, result, exitCode>>
    /\ UNCHANGED <<fs, cwd, run, ctx, fidx, stdout, answer, fs0, prev>>

(* The callback of fs.outputJSON: a failed call has written no file, and   *)
(* may or may not have made the parent directories.                        *)
OutputJSONCallback(s, outcome) ==
    /\ pc = WritingPc(s)
    /\ fs' = CASE outcome = "ok" -> Output(fs, JSONFile(s), JSONObj(s))
               [] outcome = "failed" -> fs
               [] outcome = "failedAfterMkdirs" -> Mkdirs(fs, Parent(JSONFile(s)))
    /\ SeriesCallback(s, IF outcome = "ok" THEN "none" ELSE "write",
                      <<Msg("generated", JSONLabel(s))>>)
    /\ UNCHANGED <<cwd, run, ctx, fidx, started, stdout, answer, fs0, prev>>

-----------------------------------------------------------------------------
(* files(context) and safeCopy(from, to) *)

(* A destination of safeCopy is a relative path: the file system takes it  *)
(* from the working directory of the process.                              *)
CopyDest(i) == cwd \o <<Templates[i].to>>

Files ==
    /\ pc = "files"
    /\ started' = Append(started, "files")
    /\ fidx' = 1
    /\ pc' = "copy"
    /\ UNCHANGED <<fs, cwd, run, ctx, idx, finished, log, result, exitCode,
                   stdout, answer, fs0, prev>>

(* A safeCopy task calls its done(err): the inner async.series goes on to  *)
(* the next copy, or calls the callback that ends the files step.          *)
CopyCallback(err, msgs) ==
    IF err # "none" \/ fidx = Len(Templates)
      THEN /\ SeriesCallback("files", err, msgs)
           /\ fidx' = fidx
      ELSE /\ fidx' = fidx + 1
           /\ pc' = "copy"
           /\ log' = log \o msgs
           /\ UNCHANGED <<idx, finished, result, exitCode>>

SafeCopy ==
    /\ pc = "copy"
    /\ IF Exists(fs, CopyDest(fidx))
         THEN CopyCallback("none", <<Msg("already", Templates[fidx].to)>>)
         ELSE /\ pc' = "copying"
              /\ UNCHANGED <<fidx, idx, finished, log, result, exitCode>>
    /\ UNCHANGED <<fs, cwd, run, ctx, started, stdout, answer, fs0, prev>>

(* The callback of fs.copy: a failed copy has made nothing, or a part of   *)
(* the destination.                                                        *)
FsCopyCallback(outcome) ==
    /\ pc = "copying"
    /\ fs' = CASE outcome = "ok" -> Output(fs, CopyDest(fidx), TemplateEntry(fidx))
               [] outcome = "failed" -> fs
               [] outcome = "failedPartWay" ->
                    Output(fs, CopyDest(fidx), PartialEntry(Templates[fidx].from))
    /\ CopyCallback(IF outcome = "ok" THEN "none" ELSE "copy",
                    <<Msg("generated", Templates[fidx].to)>>)
    /\ UNCHANGED <<cwd, run, ctx, started, stdout, answer, fs0, prev>>

-----------------------------------------------------------------------------
(* keys(context) *)

(* Whether keys() leaves the key files alone. *)
KeysSkips == Exists(fs, ctx.keysDir)

Keys ==
    /\ pc = "keys"
    /\ started' = Append(started, "keys")
    /\ IF KeysSkips
         THEN SeriesCallback("keys", "none", <<Msg("already", "keys")>>)
         ELSE /\ pc' = "genrsa"
              /\ UNCHANGED <<idx, finished, log, result, exitCode>>
    /\ UNCHANGED <<fs, cwd, run, ctx, fidx, stdout, answer, fs0, prev>>

(* The callback of cp.exec('openssl genrsa 2048'): stdout is a new private *)
(* key, named here by the invocation that made it.                         *)
GenrsaCallback(ok) ==
    /\ pc = "genrsa"
    /\ IF ok
         THEN /\ stdout' = run
              /\ pc' = "writePrivate"
              /\ UNCHANGED <<idx, finished, log, result, exitCode>>
         ELSE /\ stdout' = stdout
              /\ SeriesCallback("keys", "genrsa", <<>>)
    /\ UNCHANGED <<fs, cwd, run, ctx, fidx, started, answer, fs0, prev>>

(* The callback of fs.outputFile(pvt, stdout) *)
WritePrivateCallback(outcome) ==
    /\ pc = "writePrivate"
    /\ fs' = CASE outcome = "ok" -> Output(fs, ctx.pvt, PrivateKey(stdout))
               [] outcome = "failed" -> fs
               [] outcome = "failedAfterMkdirs" -> Mkdirs(fs, ctx.keysDir)
    /\ IF outcome = "ok"
         THEN /\ pc' = "pubout"
              /\ UNCHANGED <<idx, finished, log, result, exitCode>>
         ELSE SeriesCallback("keys", "write", <<>>)
    /\ UNCHANGED <<cwd, run, ctx, fidx, started, stdout, answer, fs0, prev>>

(* The callback of cp.exec('openssl rsa -in ' + pvt + ' -pubout'): stdout  *)
(* is the public key of the key in the file pvt.                           *)
PuboutCallback(ok) ==
    /\ pc = "pubout"
    /\ IF ok
         THEN /\ stdout' = fs[ctx.pvt].key
              /\ pc' = "writePublic"
              /\ UNCHANGED <<idx, finished, log, result, exitCode>>
         ELSE /\ stdout' = stdout
              /\ SeriesCallback("keys", "pubout", <<>>)
    /\ UNCHANGED <<fs, cwd, run, ctx, fidx, started, answer, fs0, prev>>

(* The callback of fs.outputFile(pub, stdout) *)
WritePublicCallback(ok) ==
    /\ pc = "writePublic"
    /\ IF ok
         THEN /\ fs' = Output(fs, ctx.pub, PublicOf(PrivateKey(stdout)))
              /\ SeriesCallback("keys", "none", <<Msg("generated", "keys")>>)
         ELSE /\ fs' = fs
              /\ SeriesCallback("keys", "write", <<>>)
    /\ UNCHANGED <<cwd, run, ctx, fidx, started, stdout, answer, fs0, prev>>

-----------------------------------------------------------------------------

WriteOutcomes == {"ok", "failed", "failedAfterMkdirs"}
CopyOutcomes == {"ok", "failed", "failedPartWay"}

Next ==
    \/ \E inv \in Invocations : Invoke(inv)
    \/ Directory
    \/ \E yes \in BOOLEAN : PromptAnswer(yes)
    \/ \E ok \in BOOLEAN : MkdirpCallback(ok)
    \/ Git
    \/ \E ok \in BOOLEAN : GitInitCallback(ok)
    \/ \E s \in JSONSteps : SafeJSON(s)
    \/ \E s \in JSONSteps, o \in WriteOutcomes : OutputJSONCallback(s, o)
    \/ Files
    \/ SafeCopy
    \/ \E o \in CopyOutcomes : FsCopyCallback(o)
    \/ Keys
    \/ \E ok \in BOOLEAN : GenrsaCallback(ok)
    \/ \E o \in WriteOutcomes : WritePrivateCallback(o)
    \/ \E ok \in BOOLEAN : PuboutCallback(ok)
    \/ \E ok \in BOOLEAN : WritePublicCallback(ok)

Spec == Init /\ [][Next]_vars

-----------------------------------------------------------------------------
(* Properties *)

Range(s) == {s[i] : i \in DOMAIN s}

(* The target directory as directory() computes it at the start of a run. *)
Target == PathJoin(ctx.cwd0, ctx.dir)

(* The directory an argument names to the user: an absolute argument names *)
(* itself, a relative one is taken from the working directory.             *)
Named(base, d) == IF d.abs THEN d.segs ELSE base \o d.segs

Running == pc \notin {"NotStarted"}
AllStepsDone ==
    /\ pc = "Done"
    /\ result = "none"
    /\ Len(finished) = Len(Steps)
ErrorReported == \E i \in DOMAIN finished : finished[i].err # "none"

ArtifactNames ==
    {"package.json", "development.json", "production.json", "server.js",
     "views", "public", ".gitignore", "private.pem", "public.pem"}
IsArtifact(p) == p # <<>> /\ p[Len(p)] \in ArtifactNames

(* C1: the steps of a run start in the order directory, git, npm,          *)
(* development, production, files, keys; each starts only after the one    *)
(* before it has called its completion callback, so at most one step is    *)
(* in progress at any time.                                                *)
StepsRunInOrderOneAtATime ==
    /\ Len(started) <= Len(Steps)
    /\ \A i \in DOMAIN started : started[i] = Steps[i]
    /\ Len(finished) <= Len(started)
    /\ Len(started) - Len(finished) <= 1
    /\ \A i \in DOMAIN finished : finished[i].step = started[i]

AllSevenStarted ==
    /\ AllStepsDone
    /\ started = Steps

(* C2: once a step's completion callback has reported an error, the run is *)
(* over with that step the last one started, and the transition that       *)
(* reports the error removes or rewrites nothing that was on the file      *)
(* system (no rollback).                                                   *)
ErrorEndsRunWithoutRollback ==
    /\ [](ErrorReported =>
            /\ pc = "Done"
            /\ Len(started) = Len(finished)
            /\ finished[Len(finished)].err # "none"
            /\ \A i \in 1..(Len(finished) - 1) : finished[i].err = "none")
    /\ [][(~ErrorReported /\ ErrorReported') =>
            \A p \in DOMAIN fs : p \in DOMAIN fs' /\ fs'[p] = fs[p]]_vars

ErrorAfterArtifactsWereMade ==
    /\ pc = "Done"
    /\ result # "none"
    /\ Len(started) \in 3..(Len(Steps) - 1)
    /\ \E p \in DOMAIN fs : p \notin DOMAIN fs0

(* C3: the DONE banner is in the log only when all seven steps completed   *)
(* without error, and a run ended by an error has that error in its log.   *)
DoneBannerOnlyAfterSuccess ==
    /\ Msg("header", "DONE") \in Range(log) => AllStepsDone
    /\ (pc = "Done" /\ result # "none") => Msg("error", result) \in Range(log)

(* C4: a manifest, configuration file, server.js, views, public,           *)
(* .gitignore or key file that exists is never removed and never written   *)
(* again: every step leaves it with the content it had.                    *)
ExistingArtifactsKeepContent ==
    [][\A p \in DOMAIN fs :
          IsArtifact(p) => p \in DOMAIN fs' /\ fs'[p] = fs[p]]_vars

OldManifestSurvivedRun ==
    /\ AllStepsDone
    /\ ctx.npmFile \in DOMAIN fs0
    /\ fs[ctx.npmFile] = OldEntry

(* C5: when a run that completed without error is followed by a second     *)
(* run against the same directory, the prompt being confirmed, every       *)
(* manifest, configuration, template and key artifact on the file system   *)
(* after the second run was there, with that content, after the first.     *)
SecondRunLeavesArtifactsAsTheyWere ==
    (/\ AllStepsDone
     /\ prev.ran /\ prev.ok /\ prev.target = Target
     /\ answer = "yes")
    => \A p \in DOMAIN fs :
          IsArtifact(p) => p \in DOMAIN fs0 /\ fs0[p] = fs[p]

(* C6: when the target directory existed and was not empty at invocation,  *)
(* a step after the directory step is started only once the user has       *)
(* answered yes; after a no the run is over with only the directory step   *)
(* started.                                                                *)
NonEmptyTargetNeedsConfirmation ==
    /\ (Running /\ Exists(fs0, Target) /\ NonEmpty(fs0, Target)
          /\ Len(started) >= 2) => answer = "yes"
    /\ answer = "no" => (pc = "Aborted" /\ started = <<"directory">>)

ConfirmedRunCompleted ==
    /\ AllStepsDone
    /\ NonEmpty(fs0, Target)
    /\ answer = "yes"

(* C7: a run the user declined ends with a non-zero exit status. *)
DeclineExitsNonZero ==
    pc = "Aborted" => exitCode # 0

(* C8: once the directory step has completed without error, the target     *)
(* directory exists and is the working directory of the process.           *)
DirectoryStepMakesTargetTheCwd ==
    (Running /\ Len(finished) >= 1 /\ finished[1].err = "none")
    => (Exists(fs, Target) /\ cwd = Target)

(* C9: every template copy, whole or partial, lies inside the target       *)
(* directory.                                                              *)
TemplatesLandInsideTarget ==
    \A p \in DOMAIN fs :
        fs[p].kind \in {"template", "partial"} => IsUnder(p, Target)

(* C10: for a directory D, named relatively or absolutely, that did not    *)
(* exist at invocation, a run without error ends with the manifest named   *)
(* after D, both configurations with their ports, the four templates and   *)
(* both key files present under D.                                         *)
FreshTargetIsPopulated ==
    LET D == Named(ctx.cwd0, ctx.dir) IN
    (AllStepsDone /\ ~Exists(fs0, D)) =>
        /\ Exists(fs, D \o <<"package.json">>)
        /\ fs[D \o <<"package.json">>].name = D[Len(D)]
        /\ Exists(fs, D \o <<"config", "development.json">>)
        /\ fs[D \o <<"config", "development.json">>].port = 3000
        /\ Exists(fs, D \o <<"config", "production.json">>)
        /\ fs[D \o <<"config", "production.json">>].port = 80
        /\ \A i \in DOMAIN Templates : Exists(fs, D \o <<Templates[i].to>>)
        /\ Exists(fs, D \o <<"config", "keys", "private.pem">>)
        /\ Exists(fs, D \o <<"config", "keys", "public.pem">>)

-----------------------------------------------------------------------------
(* Properties of the single steps *)

GitDir == Target \o <<".git">>

(* C11: once the git step has completed without error the target holds a   *)
(* repository, and the step took the no-op branch exactly when the target  *)
(* held one before the run.                                                *)
GitStepLeavesRepository ==
    (Running /\ Len(finished) >= 2 /\ finished[2].err = "none") =>
        /\ Exists(fs, GitDir)
        /\ Msg("already", "git") \in Range(log) <=> Exists(fs0, GitDir)


PrivatePem == Target \o <<"config", "keys", "private.pem">>
PublicPem == Target \o <<"config", "keys", "public.pem">>

(* C12: once the keys step has completed without error, both key files     *)
(* exist under the target, the private one a generated key and the public  *)
(* one the public key of that private key.                                 *)
KeysStepLeavesMatchingPair ==
    (Running /\ Len(finished) = Len(Steps) /\ finished[Len(Steps)].err = "none") =>
        /\ Exists(fs, PrivatePem)
        /\ Exists(fs, PublicPem)
        /\ fs[PrivatePem].kind = "private"
        /\ fs[PublicPem] = PublicOf(fs[PrivatePem])

(* Every artifact of a run is under the target, whole, on file system f. *)
WholeIn(f, p) == Exists(f, p) /\ f[p].kind \notin {"partial", "dir"}
ArtifactSetCompleteIn(f) ==
    /\ WholeIn(f, Target \o <<"package.json">>)
    /\ WholeIn(f, Target \o <<"config", "development.json">>)
    /\ WholeIn(f, Target \o <<"config", "production.json">>)
    /\ \A i \in DOMAIN Templates : WholeIn(f, Target \o <<Templates[i].to>>)
    /\ WholeIn(f, PrivatePem)
    /\ WholeIn(f, PublicPem)
ArtifactSetComplete == ArtifactSetCompleteIn(fs)

(* C13: when a run that an error halted is followed by a run against the   *)
(* same directory in which nothing fails, the second run ends with the     *)
(* manifest, both configurations, the four templates and both key files    *)
(* present.  The first run is taken on a target that did not exist, so     *)
(* that whatever the second run finds there the first run made, and the    *)
(* second on a target it found non-empty and the user confirmed.           *)
RerunAfterFailureCompletes ==
    (/\ AllStepsDone
     /\ prev.failed /\ prev.fresh /\ prev.target = Target
     /\ answer = "yes")
    => ArtifactSetComplete


AlreadyMessages ==
    { Msg("already", "git"), Msg("already", "package.json"),
      Msg("already", "development.json"), Msg("already", "production.json"),
      Msg("already", "keys") }
      \cup { Msg("already", Templates[i].to) : i \in DOMAIN Templates }

(* C14: a run, the prompt confirmed, on a target that an error-free run    *)
(* populated in full, named "." or by a relative name, logs "already       *)
(* initialized" for the repository, the                                    *)
(* manifest, both configurations, the four templates and the keys, and     *)
(* logs no "Generated" and no "Initialized".                               *)
RerunLogsOnlyAlreadyInitialized ==
    (/\ AllStepsDone
     /\ prev.ok /\ prev.target = Target
     /\ ArtifactSetCompleteIn(fs0)
     /\ ~ctx.dir.abs
     /\ answer = "yes")
    => /\ AlreadyMessages \subseteq Range(log)
       /\ \A i \in DOMAIN log : log[i][1] \notin {"generated", "initialized"}


(* What a step added to the log. *)
Logged(m) ==
    \E i \in (Len(log) + 1)..Len(log') : log'[i] = m
CalledBack(err) ==
    /\ Len(finished') = Len(finished) + 1
    /\ finished'[Len(finished')].err = err

(* C15: an invocation of safeJSON ends in exactly one of three ways: the   *)
(* file was there, "already initialized" is logged, nothing is written     *)
(* and done() has no error; the file was absent and is written,            *)
(* "Generated" is logged and done() has no error; the file was absent and  *)
(* the write fails, done() has the error and no "Generated" is logged.     *)
SafeJSONHasThreeOutcomes ==
    [][\A s \in JSONSteps :
         /\ (pc = s /\ Exists(fs, JSONFile(s))) =>
               /\ Logged(Msg("already", JSONLabel(s)))
               /\ fs' = fs
               /\ CalledBack("none")
         /\ (pc = s /\ ~Exists(fs, JSONFile(s))) =>
               /\ pc' = WritingPc(s)
               /\ fs' = fs
               /\ log' = log
         /\ pc = WritingPc(s) =>
               \/ /\ Exists(fs', JSONFile(s))
                  /\ fs'[JSONFile(s)] = JSONObj(s)
                  /\ Logged(Msg("generated", JSONLabel(s)))
                  /\ CalledBack("none")
               \/ /\ ~Exists(fs', JSONFile(s))
                  /\ ~Logged(Msg("generated", JSONLabel(s)))
                  /\ CalledBack("write")]_vars


-----------------------------------------------------------------------------
(* Properties of the orchestrator's states *)

Ended == pc \in {"Done", "Aborted"}
InRun == pc \notin {"NotStarted", "Done", "Aborted"}

(* C16: a run becomes Aborted only from the prompt of the directory step   *)
(* and only on the answer no; once the directory step is over, a step of   *)
(* the run stays in its task, goes to the next task, or ends the run       *)
(* through the final callback.                                             *)
AbortOnlyFromDeclinedPrompt ==
    [][/\ pc' = "Aborted" =>
            /\ pc = "prompt"
            /\ idx = 1
            /\ answer' = "no"
       /\ (InRun /\ idx >= 2) =>
            \/ pc' = "Done"
            \/ idx' = idx /\ InRun'
            \/ idx' = idx + 1 /\ pc' = Steps[idx + 1]]_vars

RunAborted == pc = "Aborted"

(* C17: a run the user declined has left the file system and the working   *)
(* directory as they were when the command was invoked.                    *)
DeclinedRunChangesNothing ==
    pc = "Aborted" => (fs = fs0 /\ cwd = ctx.cwd0)

DeclinedFromParent ==
    /\ pc = "Aborted"
    /\ ctx.dir = RelProj

(* C18: the manifest, the configurations and the key files are written at  *)
(* <working directory at invocation>/<target>/..., whatever the working    *)
(* directory is when their step runs; a template is written into the       *)
(* working directory of that moment, which is also where git() looks.      *)
PathsFixedAtInvocation ==
    /\ [][\A p \in DOMAIN fs' \ DOMAIN fs :
            /\ fs'[p].kind = "manifest" => p = Target \o <<"package.json">>
            /\ fs'[p].kind = "config" =>
                 p \in { Target \o <<"config", "development.json">>,
                         Target \o <<"config", "production.json">> }
            /\ fs'[p].kind = "private" => p = PrivatePem
            /\ fs'[p].kind = "public" => p = PublicPem
            /\ fs'[p].kind \in {"template", "partial"} => Parent(p) = cwd]_vars
    /\ [][pc = "git" =>
            (pc' = "gitInit" <=> ~Exists(fs, PathJoin(cwd, ctx.dir)))]_vars

WrittenUnderTargetAfterChdir ==
    /\ AllStepsDone
    /\ cwd # ctx.cwd0
    /\ ~Exists(fs0, ctx.npmFile)
    /\ Exists(fs, Target \o <<"package.json">>)
    /\ ~Exists(fs0, PrivatePem)
    /\ Exists(fs, PrivatePem)


-----------------------------------------------------------------------------
(* Termination *)

(* Every file-system call, child process and prompt of a run completes,    *)
(* and the synchronous part of each step runs: a step of a run that can    *)
(* be taken is taken.  Nothing obliges the user to invoke the command.     *)
LiveSpec == Spec /\ WF_vars(InRun /\ Next)

NoRepeats(seq) == \A i, j \in DOMAIN seq : seq[i] = seq[j] => i = j
BannerCount == Cardinality({i \in DOMAIN log : log[i] = Msg("header", "DONE")})

(* C19: every run ends, by process.exit() on a decline or by the final     *)
(* callback, which is called exactly once; no step is started twice and    *)
(* no step calls its completion callback twice in a run.                   *)
EveryRunEndsOnce ==
    /\ InRun ~> Ended
    /\ [](/\ NoRepeats(started)
          /\ NoRepeats([i \in DOMAIN finished |-> finished[i].step])
          /\ InRun => BannerCount = 0
          /\ pc = "Aborted" => BannerCount = 0
          /\ pc = "Done" => BannerCount = 1)

RunEndedByFinalCallback ==
    /\ pc = "Done"
    /\ BannerCount = 1
    /\ Len(started) = Len(Steps)
    /\ prev.ran

====
